---- MODULE Spec2Model ----
(***************************************************************************)
(* A model of src/lib.rs: the generic trie Trie<K, V> (insert, fetch), its *)
(* lazy pre-order traversal TrieIter with the projections TrieKeyIter and  *)
(* TrieValueIter, and the serde/CBOR round trip of the derived             *)
(* Serialize/Deserialize implementations.                                  *)
(***************************************************************************)
EXTENDS Integers, Sequences, FiniteSets, TLC

(***************************************************************************)
(* Bounds of the model.                                                    *)
(***************************************************************************)
\* keys are 1..NumKeys (the type parameter K, i32 in the tests)
NumKeys == 2
\* the longest key sequence handed to insert and fetch
MaxDepth == 2
\* i32 values are 1..NumVals
NumVals == 2
\* the number of successful insert calls on one trie
MaxInserts == 3
\* the number of successful insert calls on a trie that keys() and values()
\* are run on, side by side with iter()
MaxProjInserts == 2
\* the number of next() calls made on one traversal
MaxPulls == 4

Keys == 1..NumKeys

RECURSIVE PathsOfLen(_)
PathsOfLen(n) ==
    IF n = 0 THEN {<<>>}
    ELSE {Append(p, k) : p \in PathsOfLen(n - 1), k \in Keys}

\* every key sequence of length 0..MaxDepth
Paths == UNION {PathsOfLen(n) : n \in 0..MaxDepth}
\* key sequences one longer than any inserted one, to fetch past the leaves
ProbePaths == Paths \cup PathsOfLen(MaxDepth + 1)

(***************************************************************************)
(* Option<T>: None is the empty sequence, Some(v) the one-element one.     *)
(***************************************************************************)
None == <<>>
Some(v) == <<v>>
is_none(o) == o = None
is_some(o) == o /= None
unwrap(o) == o[1]

\* the unit value (), the only inhabitant of the value type of Trie<&str, ()>
Unit == <<>>

\* the values of the type parameter V
ValuesOf(ty) == IF ty = "unit" THEN {Unit} ELSE 1..NumVals

(***************************************************************************)
(* std::collections::HashMap<K, Trie>.  tab is the key -> value mapping;   *)
(* order is the order in which the table's buckets are iterated: it is     *)
(* unspecified, stays the same while the map is not modified, and may be   *)
(* any order after an insertion (a resize rehashes every entry).           *)
(***************************************************************************)
Perms(S) ==
    {s \in [1..Cardinality(S) -> S] : \A i, j \in 1..Cardinality(S) : i /= j => s[i] /= s[j]}

HashMap_new == [tab |-> <<>>, order |-> <<>>]
contains_key(m, k) == k \in DOMAIN m.tab
hm_is_empty(m) == DOMAIN m.tab = {}
hm_keys(m) == m.order
\* insertion of a key the map does not hold: one outcome per bucket order
hm_insert(m, k, v) ==
    {[tab |-> (k :> v) @@ m.tab, order |-> o] : o \in Perms(DOMAIN m.tab \cup {k})}

(***************************************************************************)
(* struct Trie { val, children } and Trie::new                             *)
(***************************************************************************)
\* new as it would be if it dropped its argument
Trie_new_without_val(val) == [val |-> None, children |-> HashMap_new]

Trie_new(val) == [val |-> val, children |-> HashMap_new]

(***************************************************************************)
(* Trie::insert.  The result is the set of outcomes of the call: self      *)
(* after the call and whether the assertion failed.  The assertion is      *)
(* evaluated before any assignment, so a failed call leaves self as it     *)
(* was.                                                                    *)
(***************************************************************************)
\* insert as it would be if a new child replaced the map instead of joining it
RECURSIVE insert_replacing_children(_, _, _)
insert_replacing_children(self, keys, val) ==
    IF keys = <<>> THEN
        IF is_none(self.val)
        THEN {[self |-> [self EXCEPT !.val = Some(val)], panicked |-> FALSE]}
        ELSE {[self |-> self, panicked |-> TRUE]}
    ELSE
        LET first == Head(keys)
            remaining == Tail(keys)
        IN  IF contains_key(self.children, first) THEN
                {[self |-> [self EXCEPT !.children.tab[first] = r.self],
                  panicked |-> r.panicked] :
                    r \in insert_replacing_children(self.children.tab[first], remaining, val)}
            ELSE
                UNION {IF r.panicked
                       THEN {[self |-> self, panicked |-> TRUE]}
                       ELSE {[self |-> [self EXCEPT !.children = c], panicked |-> FALSE] :
                                c \in hm_insert(HashMap_new, first, r.self)} :
                          r \in insert_replacing_children(Trie_new(None), remaining, val)}

\* insert as it would be without the assertion: the value is overwritten
RECURSIVE insert_overwriting(_, _, _)
insert_overwriting(self, keys, val) ==
    IF keys = <<>> THEN
        {[self |-> [self EXCEPT !.val = Some(val)], panicked |-> FALSE]}
    ELSE
        LET first == Head(keys)
            remaining == Tail(keys)
        IN  IF contains_key(self.children, first) THEN
                {[self |-> [self EXCEPT !.children.tab[first] = r.self],
                  panicked |-> r.panicked] :
                    r \in insert_overwriting(self.children.tab[first], remaining, val)}
            ELSE
                UNION {{[self |-> [self EXCEPT !.children = c], panicked |-> FALSE] :
                            c \in hm_insert(self.children, first, r.self)} :
                          r \in insert_overwriting(Trie_new(None), remaining, val)}

\* insert as it would be if it also stored the value at the nodes on the way
RECURSIVE insert_storing_on_path(_, _, _)
insert_storing_on_path(self, keys, val) ==
    IF keys = <<>> THEN
        IF is_none(self.val)
        THEN {[self |-> [self EXCEPT !.val = Some(val)], panicked |-> FALSE]}
        ELSE {[self |-> self, panicked |-> TRUE]}
    ELSE
        LET first == Head(keys)
            remaining == Tail(keys)
            marked(t) == [t EXCEPT !.val = IF is_none(@) THEN Some(val) ELSE @]
        IN  IF contains_key(self.children, first) THEN
                {[self |-> IF r.panicked THEN self
                           ELSE marked([self EXCEPT !.children.tab[first] = r.self]),
                  panicked |-> r.panicked] :
                    r \in insert_storing_on_path(self.children.tab[first], remaining, val)}
            ELSE
                UNION {IF r.panicked
                       THEN {[self |-> self, panicked |-> TRUE]}
                       ELSE {[self |-> marked([self EXCEPT !.children = c]),
                              panicked |-> FALSE] :
                                c \in hm_insert(self.children, first, r.self)} :
                          r \in insert_storing_on_path(Trie_new(None), remaining, val)}

\* insert as it would be if a new child were linked without the recursive call
RECURSIVE insert_forgetting_value(_, _, _)
insert_forgetting_value(self, keys, val) ==
    IF keys = <<>> THEN
        IF is_none(self.val)
        THEN {[self |-> [self EXCEPT !.val = Some(val)], panicked |-> FALSE]}
        ELSE {[self |-> self, panicked |-> TRUE]}
    ELSE
        LET first == Head(keys)
            remaining == Tail(keys)
        IN  IF contains_key(self.children, first) THEN
                {[self |-> [self EXCEPT !.children.tab[first] = r.self],
                  panicked |-> r.panicked] :
                    r \in insert_forgetting_value(self.children.tab[first], remaining, val)}
            ELSE
                {[self |-> [self EXCEPT !.children = c], panicked |-> FALSE] :
                    c \in hm_insert(self.children, first, Trie_new(None))}

\* insert as it would be if descending through a leaf replaced the leaf
RECURSIVE insert_resetting_leaf(_, _, _)
insert_resetting_leaf(self, keys, val) ==
    IF keys = <<>> THEN
        IF is_none(self.val)
        THEN {[self |-> [self EXCEPT !.val = Some(val)], panicked |-> FALSE]}
        ELSE {[self |-> self, panicked |-> TRUE]}
    ELSE
        LET first == Head(keys)
            remaining == Tail(keys)
        IN  IF contains_key(self.children, first) THEN
                LET child == self.children.tab[first]
                    base == IF hm_is_empty(child.children) /\ remaining /= <<>>
                            THEN Trie_new(None) ELSE child
                IN  {[self |-> [self EXCEPT !.children.tab[first] = r.self],
                      panicked |-> r.panicked] :
                        r \in insert_resetting_leaf(base, remaining, val)}
            ELSE
                UNION {IF r.panicked
                       THEN {[self |-> self, panicked |-> TRUE]}
                       ELSE {[self |-> [self EXCEPT !.children = c], panicked |-> FALSE] :
                                c \in hm_insert(self.children, first, r.self)} :
                          r \in insert_resetting_leaf(Trie_new(None), remaining, val)}

RECURSIVE insert(_, _, _)
insert(self, keys, val) ==
    IF keys = <<>> THEN
        IF is_none(self.val)
        THEN {[self |-> [self EXCEPT !.val = Some(val)], panicked |-> FALSE]}
        ELSE {[self |-> self, panicked |-> TRUE]}
    ELSE
        LET first == Head(keys)
            remaining == Tail(keys)
        IN  IF contains_key(self.children, first) THEN
                {[self |-> [self EXCEPT !.children.tab[first] = r.self],
                  panicked |-> r.panicked] :
                    r \in insert(self.children.tab[first], remaining, val)}
            ELSE
                UNION {IF r.panicked
                       THEN {[self |-> self, panicked |-> TRUE]}
                       ELSE {[self |-> [self EXCEPT !.children = c], panicked |-> FALSE] :
                                c \in hm_insert(self.children, first, r.self)} :
                          r \in insert(Trie_new(None), remaining, val)}

(***************************************************************************)
(* Trie::fetch                                                             *)
(***************************************************************************)
\* fetch as it would be if a missing child fell back to the node's own value
RECURSIVE fetch_falling_back(_, _)
fetch_falling_back(self, keys) ==
    IF keys = <<>> THEN self.val
    ELSE
        LET first == Head(keys)
            remaining == Tail(keys)
        IN  IF contains_key(self.children, first)
            THEN fetch_falling_back(self.children.tab[first], remaining)
            ELSE self.val

RECURSIVE fetch(_, _)
fetch(self, keys) ==
    IF keys = <<>> THEN self.val
    ELSE
        LET first == Head(keys)
            remaining == Tail(keys)
        IN  IF contains_key(self.children, first)
            THEN fetch(self.children.tab[first], remaining)
            ELSE None

\* whether fetch fails: the assertion after the early return, and the unwrap
\* of split_first
RECURSIVE fetch_panics(_, _)
fetch_panics(self, keys) ==
    IF keys = <<>> THEN FALSE
    ELSE IF Len(keys) = 0 THEN TRUE
    ELSE
        LET first == Head(keys)
            remaining == Tail(keys)
        IN  IF contains_key(self.children, first)
            THEN fetch_panics(self.children.tab[first], remaining)
            ELSE FALSE

(***************************************************************************)
(* struct TrieIter { inner, child_iters, current, did_self, keys_above }   *)
(* inner borrows a node of the trie: the borrow forbids any change to the  *)
(* trie while the traversal lives, so the node is held by value.           *)
(***************************************************************************)
iter_impl(self, keys_above) ==
    [inner |-> self, child_iters |-> None, current |-> 0, did_self |-> FALSE,
     keys_above |-> keys_above]

Trie_iter(self) == iter_impl(self, <<>>)
\* keys() as it would be if the traversal were built as already started
Trie_keys_started(self) == [iter |-> [iter_impl(self, <<>>) EXCEPT !.did_self = TRUE]]

\* struct TrieKeyIter { iter } and struct TrieValueIter { iter }
Trie_keys(self) == [iter |-> iter_impl(self, <<>>)]
Trie_values(self) == [iter |-> iter_impl(self, <<>>)]

\* the closure as it would be without the pop
child_iter_closure_no_pop(self, k) ==
    LET pushed == [self EXCEPT !.keys_above = Append(@, k)]
        i == iter_impl(pushed.inner.children.tab[k], pushed.keys_above)
    IN  [self |-> pushed, i |-> i]

\* the closure handed to map: push the child's key, build its traversal, pop
child_iter_closure(self, k) ==
    LET pushed == [self EXCEPT !.keys_above = Append(@, k)]
        i == iter_impl(pushed.inner.children.tab[k], pushed.keys_above)
        popped == [pushed EXCEPT !.keys_above = SubSeq(@, 1, Len(@) - 1)]
    IN  [self |-> popped, i |-> i]

\* child_keys_iter.map(closure).collect(): the closure runs once per key, in
\* the order the map yields its keys
RECURSIVE collect_child_iters(_, _)
collect_child_iters(self, child_keys) ==
    IF child_keys = <<>> THEN [self |-> self, v |-> <<>>]
    ELSE
        LET c == child_iter_closure(self, Head(child_keys))
            rest == collect_child_iters(c.self, Tail(child_keys))
        IN  [self |-> rest.self, v |-> <<c.i>> \o rest.v]

\* the first half of next(): the block run when did_self is false, up to the
\* test of inner.val
do_self(self) ==
    LET s1 == [self EXCEPT !.did_self = TRUE]
    IN  IF ~hm_is_empty(s1.inner.children) THEN
            IF is_some(s1.child_iters) \/ s1.current /= 0
            THEN [self |-> s1, panicked |-> TRUE]
            ELSE LET c == collect_child_iters(s1, hm_keys(s1.inner.children))
                 IN  [self |-> [c.self EXCEPT !.child_iters = Some(c.v)],
                      panicked |-> FALSE]
        ELSE [self |-> s1, panicked |-> FALSE]

(***************************************************************************)
(* TrieIter::next.  The outcome is self after the call, the value returned *)
(* and whether the call panicked (a failed assertion or an index past the  *)
(* end of child_iters).  current is the zero-based index of the code:      *)
(* child_iters[current] is element current + 1 of the sequence.            *)
(***************************************************************************)
RECURSIVE TrieIter_next(_)
RECURSIVE next_loop(_)

\* the loop as it would be if it gave up at the first exhausted child
next_loop_giving_up(self) ==
    LET child_iters == unwrap(self.child_iters)
    IN  IF self.current >= Len(child_iters)
        THEN [self |-> self, ret |-> None, panicked |-> TRUE]
        ELSE
            LET r == TrieIter_next(child_iters[self.current + 1])
                s1 == [self EXCEPT !.child_iters = Some([child_iters EXCEPT ![self.current + 1] = r.self])]
            IN  [self |-> s1, ret |-> r.ret, panicked |-> r.panicked]

\* the loop as it would be if it took the children in turn, moving to the
\* next child after every item
next_loop_round_robin(self) ==
    LET child_iters == unwrap(self.child_iters)
    IN  IF self.current >= Len(child_iters)
        THEN [self |-> self, ret |-> None, panicked |-> TRUE]
        ELSE
            LET r == TrieIter_next(child_iters[self.current + 1])
                s1 == [self EXCEPT !.child_iters = Some([child_iters EXCEPT ![self.current + 1] = r.self])]
            IN  IF r.panicked THEN [self |-> s1, ret |-> None, panicked |-> TRUE]
                ELSE IF is_some(r.ret)
                THEN [self |-> [s1 EXCEPT !.current = (@ + 1) % Len(child_iters)],
                      ret |-> r.ret, panicked |-> FALSE]
                ELSE
                    LET s2 == [s1 EXCEPT !.current = @ + 1]
                    IN  IF s2.current >= Len(child_iters)
                        THEN [self |-> s2, ret |-> None, panicked |-> FALSE]
                        ELSE next_loop(s2)

\* the loop over the child traversals
next_loop(self) ==
    LET child_iters == unwrap(self.child_iters)
    IN  IF self.current >= Len(child_iters)
        THEN [self |-> self, ret |-> None, panicked |-> TRUE]
        ELSE
            LET r == TrieIter_next(child_iters[self.current + 1])
                s1 == [self EXCEPT !.child_iters = Some([child_iters EXCEPT ![self.current + 1] = r.self])]
            IN  IF r.panicked THEN [self |-> s1, ret |-> None, panicked |-> TRUE]
                ELSE IF is_some(r.ret) THEN [self |-> s1, ret |-> r.ret, panicked |-> FALSE]
                ELSE
                    LET s2 == [s1 EXCEPT !.current = @ + 1]
                    IN  IF s2.current >= Len(child_iters)
                        THEN [self |-> s2, ret |-> None, panicked |-> FALSE]
                        ELSE next_loop(s2)

\* next() as it would be if the node's own value came after its children's
TrieIter_next_children_first(self) ==
    LET d == IF ~self.did_self THEN do_self(self) ELSE [self |-> self, panicked |-> FALSE]
        own == Some(<<d.self.keys_above, unwrap(d.self.inner.val)>>)
    IN  IF d.panicked THEN [self |-> d.self, ret |-> None, panicked |-> TRUE]
        ELSE IF is_none(d.self.child_iters) THEN
            IF ~self.did_self /\ is_some(d.self.inner.val)
            THEN [self |-> d.self, ret |-> own, panicked |-> FALSE]
            ELSE [self |-> d.self, ret |-> None, panicked |-> FALSE]
        ELSE
            LET r == next_loop(d.self)
            IN  IF ~r.panicked /\ is_none(r.ret) /\ is_some(d.self.inner.val)
                THEN [self |-> r.self, ret |-> own, panicked |-> FALSE]
                ELSE r

TrieIter_next(self) ==
    LET d == IF ~self.did_self THEN do_self(self) ELSE [self |-> self, panicked |-> FALSE]
    IN  IF d.panicked THEN [self |-> d.self, ret |-> None, panicked |-> TRUE]
        ELSE IF ~self.did_self /\ is_some(d.self.inner.val)
        THEN [self |-> d.self,
              ret |-> Some(<<d.self.keys_above, unwrap(d.self.inner.val)>>),
              panicked |-> FALSE]
        ELSE IF is_none(d.self.child_iters)
        THEN [self |-> d.self, ret |-> None, panicked |-> FALSE]
        ELSE next_loop(d.self)

\* TrieKeyIter::next
TrieKeyIter_next(self) ==
    LET r == TrieIter_next(self.iter)
    IN  [self |-> [self EXCEPT !.iter = r.self],
         ret |-> IF is_none(r.ret) THEN None ELSE Some(unwrap(r.ret)[1]),
         panicked |-> r.panicked]

\* TrieValueIter::next
TrieValueIter_next(self) ==
    LET r == TrieIter_next(self.iter)
    IN  [self |-> [self EXCEPT !.iter = r.self],
         ret |-> IF is_none(r.ret) THEN None ELSE Some(unwrap(r.ret)[2]),
         panicked |-> r.panicked]

(***************************************************************************)
(* #[derive(Serialize, Deserialize)] on Trie with serde_cbor::to_vec and   *)
(* serde_cbor::de::from_slice.  The encoding is kept as CBOR data items.   *)
(* A struct is a map from its field names to its fields, in declaration    *)
(* order; a HashMap is a map with one entry per key, in the order the map  *)
(* yields them; Option's None is null and Some(v) is v's own encoding; the *)
(* unit value is null; an i32 is an integer.                               *)
(***************************************************************************)
CborNull == [t |-> "null"]
CborInt(n) == [t |-> "int", n |-> n]
CborText(str) == [t |-> "text", s |-> str]
CborMap(entries) == [t |-> "map", entries |-> entries]

\* V::serialize as it would be if the encoder wrote the unit value as an
\* empty map, which is not null
ser_value_tagged(ty, v) == IF ty = "unit" THEN CborMap(<<>>) ELSE CborInt(v)

\* V::serialize, for V = () and V = i32
ser_value(ty, v) == IF ty = "unit" THEN CborNull ELSE CborInt(v)

\* Option<V>::serialize
ser_option(ty, o) == IF is_none(o) THEN CborNull ELSE ser_value(ty, unwrap(o))

RECURSIVE ser_trie(_, _)

\* HashMap<K, Trie>::serialize
ser_children(ty, m) ==
    CborMap([i \in DOMAIN hm_keys(m) |->
                <<CborInt(hm_keys(m)[i]), ser_trie(ty, m.tab[hm_keys(m)[i]])>>])

\* Trie::serialize as it would be with #[serde(skip_serializing)] on val
ser_trie_skipping_val(ty, self) ==
    CborMap(<< <<CborText("children"), ser_children(ty, self.children)>> >>)

\* Trie::serialize (derived)
ser_trie(ty, self) ==
    CborMap(<< <<CborText("val"), ser_option(ty, self.val)>>,
               <<CborText("children"), ser_children(ty, self.children)>> >>)

\* serde_cbor::to_vec(&t)
to_vec(ty, t) == ser_trie(ty, t)

\* V::deserialize
de_value(ty, item) == IF ty = "unit" THEN Unit ELSE item.n

\* Option<V>::deserialize: null is None, anything else is Some of a V
de_option(ty, item) == IF item = CborNull THEN None ELSE Some(de_value(ty, item))

\* the items stored under the field name in the entries of a struct's map
field(entries, name) ==
    {entries[i][2] : i \in {j \in DOMAIN entries : entries[j][1] = CborText(name)}}

RECURSIVE de_trie(_, _)
RECURSIVE de_entries(_, _, _)

\* HashMap<K, Trie>::deserialize: the entries are inserted into a new map one
\* by one; the result is the set of maps this can leave
de_entries(ty, entries, m) ==
    IF entries = <<>> THEN {m}
    ELSE
        LET k == Head(entries)[1].n
            inserted_maps ==
                UNION {IF contains_key(m, k)
                       THEN {[m EXCEPT !.tab[k] = c]}
                       ELSE hm_insert(m, k, c) :
                          c \in de_trie(ty, Head(entries)[2])}
        IN  UNION {de_entries(ty, Tail(entries), m2) : m2 \in inserted_maps}

\* Trie::deserialize (derived): a missing Option field is None, a missing
\* children field is an error; the result is the set of tries decoding can
\* return, empty when it returns Err
de_trie(ty, item) ==
    LET vals == field(item.entries, "val")
        maps == field(item.entries, "children")
    IN  IF item.t /= "map" \/ Cardinality(maps) /= 1 \/ Cardinality(vals) > 1 THEN {}
        ELSE
            LET val == IF vals = {} THEN None
                       ELSE de_option(ty, CHOOSE x \in vals : TRUE)
                mapitem == CHOOSE x \in maps : TRUE
            IN  {[val |-> val, children |-> c] :
                    c \in de_entries(ty, mapitem.entries, HashMap_new)}

\* serde_cbor::de::from_slice(&encoded): the tries of the Ok results
from_slice(ty, encoded) == de_trie(ty, encoded)

VARIABLES
    vtype,      \* the type parameter V: "i32" or "unit"
    new_val,    \* the argument of Trie::new
    trie,       \* the trie t
    inserted,   \* the (keys, val) arguments of the insert calls that returned
    last,       \* the last new, insert, fetch, to_vec or from_slice call: its name,
                \* arguments and outcome
    it,         \* the traversal t.iter() while it lives, else None
    kit,        \* the traversal t.keys() while it lives, else None
    vit,        \* the traversal t.values() while it lives, else None
    out,        \* per traversal, the outcomes of its next() calls so far
    encoded,    \* the buffer to_vec returned, else None
    decoded     \* the trie from_slice returned, else None

vars == <<vtype, new_val, trie, inserted, last, it, kit, vit, out, encoded, decoded>>
ser_vars == <<encoded, decoded>>
iter_vars == <<it, kit, vit, out>>
type_vars == <<vtype, new_val>>

Init ==
    /\ vtype \in {"i32", "unit"}
    /\ \E val \in {None} \cup {Some(v) : v \in ValuesOf(vtype)} :
          /\ new_val = val
          /\ trie = Trie_new(val)
          /\ last = [op |-> "new", keys |-> <<>>, val |-> val, panicked |-> FALSE]
    /\ inserted = {}
    /\ it = None /\ kit = None /\ vit = None
    /\ out = [iter |-> <<>>, keys |-> <<>>, values |-> <<>>]
    /\ encoded = None /\ decoded = None

\* t.insert(&keys, val): the exclusive borrow needs every traversal dropped
Insert ==
    /\ it = None /\ kit = None /\ vit = None
    /\ \E keys \in Paths, val \in ValuesOf(vtype) :
          \E r \in insert(trie, keys, val) :
              /\ r.panicked \/ Cardinality(inserted) < MaxInserts
              /\ trie' = r.self
              /\ inserted' = IF r.panicked THEN inserted ELSE inserted \cup {<<keys, val>>}
              /\ last' = [op |-> "insert", keys |-> keys, val |-> Some(val),
                          panicked |-> r.panicked]
    /\ UNCHANGED <<type_vars, iter_vars, ser_vars>>

\* t.fetch(&keys)
Fetch ==
    \E keys \in ProbePaths :
        /\ last' = [op |-> "fetch", keys |-> keys, val |-> fetch(trie, keys),
                    panicked |-> fetch_panics(trie, keys)]
        /\ UNCHANGED <<type_vars, trie, inserted, iter_vars, ser_vars>>

\* the outcome of one next() call, as recorded in out
Outcome(r) == [ret |-> r.ret, panicked |-> r.panicked]

\* let i = t.iter()
Iter ==
    /\ it = None
    /\ it' = Some(Trie_iter(trie))
    /\ out' = [out EXCEPT !.iter = <<>>]
    /\ UNCHANGED <<type_vars, trie, inserted, last, kit, vit, ser_vars>>

\* let k = t.keys()
KeysCall ==
    /\ kit = None
    /\ Cardinality(inserted) <= MaxProjInserts
    /\ kit' = Some(Trie_keys(trie))
    /\ out' = [out EXCEPT !.keys = <<>>]
    /\ UNCHANGED <<type_vars, trie, inserted, last, it, vit, ser_vars>>

\* let v = t.values()
ValuesCall ==
    /\ vit = None
    /\ Cardinality(inserted) <= MaxProjInserts
    /\ vit' = Some(Trie_values(trie))
    /\ out' = [out EXCEPT !.values = <<>>]
    /\ UNCHANGED <<type_vars, trie, inserted, last, it, kit, ser_vars>>

\* i.next()
IterNext ==
    /\ is_some(it)
    /\ Len(out.iter) < MaxPulls
    /\ LET r == TrieIter_next(unwrap(it))
       IN  /\ it' = Some(r.self)
           /\ out' = [out EXCEPT !.iter = Append(@, Outcome(r))]
    /\ UNCHANGED <<type_vars, trie, inserted, last, kit, vit, ser_vars>>

\* k.next()
KeysNext ==
    /\ is_some(kit)
    /\ Len(out.keys) < MaxPulls
    /\ LET r == TrieKeyIter_next(unwrap(kit))
       IN  /\ kit' = Some(r.self)
           /\ out' = [out EXCEPT !.keys = Append(@, Outcome(r))]
    /\ UNCHANGED <<type_vars, trie, inserted, last, it, vit, ser_vars>>

\* v.next()
ValuesNext ==
    /\ is_some(vit)
    /\ Len(out.values) < MaxPulls
    /\ LET r == TrieValueIter_next(unwrap(vit))
       IN  /\ vit' = Some(r.self)
           /\ out' = [out EXCEPT !.values = Append(@, Outcome(r))]
    /\ UNCHANGED <<type_vars, trie, inserted, last, it, kit, ser_vars>>

\* the traversals go out of scope
DropIters ==
    /\ is_some(it) \/ is_some(kit) \/ is_some(vit)
    /\ it' = None /\ kit' = None /\ vit' = None
    /\ out' = [iter |-> <<>>, keys |-> <<>>, values |-> <<>>]
    /\ UNCHANGED <<type_vars, trie, inserted, last, ser_vars>>

\* let encoded = serde_cbor::to_vec(&t).unwrap()
ToVec ==
    /\ encoded' = Some(to_vec(vtype, trie))
    /\ last' = [op |-> "to_vec", keys |-> <<>>, val |-> None, panicked |-> FALSE]
    /\ UNCHANGED <<type_vars, trie, inserted, iter_vars, decoded>>

\* let out = serde_cbor::de::from_slice(&encoded).unwrap()
FromSlice ==
    /\ is_some(encoded)
    /\ LET oks == from_slice(vtype, unwrap(encoded))
       IN  IF oks = {}
           THEN /\ decoded' = decoded
                /\ last' = [op |-> "from_slice", keys |-> <<>>, val |-> None,
                            panicked |-> TRUE]
           ELSE /\ \E d \in oks : decoded' = Some(d)
                /\ last' = [op |-> "from_slice", keys |-> <<>>, val |-> None,
                            panicked |-> FALSE]
    /\ UNCHANGED <<type_vars, trie, inserted, iter_vars, encoded>>

\* insert and fetch
Next == Insert \/ Fetch

\* insert and the round trip through the encoding
NextSer == Insert \/ ToVec \/ FromSlice

\* insert and the traversal iter()
NextIter == Insert \/ Iter \/ IterNext \/ DropIters

\* insert and the three traversals iter(), keys() and values()
NextProj ==
    \/ Insert
    \/ Iter \/ KeysCall \/ ValuesCall
    \/ IterNext \/ KeysNext \/ ValuesNext
    \/ DropIters

Spec == Init /\ [][Next]_vars
SpecIter == Init /\ [][NextIter]_vars
SpecProj == Init /\ [][NextProj]_vars
SpecSer == Init /\ [][NextSer]_vars

(***************************************************************************)
(* Properties of insert and fetch.                                         *)
(***************************************************************************)
\* the paths at which a successful insert call stored a value
InsertedPaths == {e[1] : e \in inserted}

IsPrefix(p, q) == Len(p) <= Len(q) /\ SubSeq(q, 1, Len(p)) = p
IsStrictPrefix(p, q) == Len(p) < Len(q) /\ IsPrefix(p, q)

\* C1: fetch after insert.  Once insert(p, v) has returned, fetch(p) is
\* Some(v), in the state after the call and in every state reached by further
\* successful inserts at other paths.
C1_FetchAfterInsert ==
    \A e \in inserted : fetch(trie, e[1]) = Some(e[2])

\* C1 witness: two inserts have returned and a fetch call at the path of the
\* earlier one has returned the value inserted there
C1_Witness ==
    /\ last.op = "fetch"
    /\ Cardinality(InsertedPaths) >= 2
    /\ \E e \in inserted : e[1] = last.keys /\ last.val = Some(e[2])

\* C2: fetch miss.  In a trie built from new(None), fetch returns None and
\* does not fail at every path where no value was inserted: a strict prefix
\* of an inserted path, an extension of one, a path through a missing key.
C2_FetchMiss ==
    is_none(new_val) =>
        \A q \in ProbePaths :
            q \notin InsertedPaths =>
                fetch(trie, q) = None /\ ~fetch_panics(trie, q)

\* C2 witness: a fetch call has returned None at an extension of an inserted
\* path, while a strict prefix of an inserted path and a path through a key
\* never inserted also hold no value
C2_Witness ==
    /\ is_none(new_val)
    /\ last.op = "fetch" /\ last.val = None /\ ~last.panicked
    /\ \E p \in InsertedPaths : IsStrictPrefix(p, last.keys)
    /\ \E p \in InsertedPaths, q \in Paths :
          IsStrictPrefix(q, p) /\ q \notin InsertedPaths
    /\ \E q \in Paths :
          q /= <<>> /\ \A p \in InsertedPaths : p = <<>> \/ Head(p) /= Head(q)

\* C3: duplicate insert fails.  An insert call at a path that holds a value
\* (the empty path of a root built with Some included) fails its assertion
\* and leaves the value in place; no step overwrites a stored value.
C3_DuplicateInsertFails ==
    [][/\ (last'.op = "insert" /\ is_some(fetch(trie, last'.keys))) =>
              (last'.panicked /\ trie' = trie)
       /\ \A p \in Paths :
              is_some(fetch(trie, p)) => fetch(trie', p) = fetch(trie, p)]_vars

\* C3 witness: an insert call of a different value at a path holding a value
\* has failed (at the empty path: that of a root built with Some)
C3_Witness ==
    /\ last.op = "insert" /\ last.panicked
    /\ is_some(fetch(trie, last.keys)) /\ fetch(trie, last.keys) /= last.val
    /\ (last.keys = <<>> => is_some(new_val) /\ inserted /= {})

(***************************************************************************)
(* Properties of the traversals.                                           *)
(***************************************************************************)
\* the outcome of a next() call that returned None
Exhausted == [ret |-> None, panicked |-> FALSE]

\* the (path, value) pairs the trie holds, as fetch sees them
Stored(t) == {<<p, unwrap(fetch(t, p))>> : p \in {q \in Paths : is_some(fetch(t, q))}}

Min(a, b) == IF a <= b THEN a ELSE b

\* C4: sequence exhaustion.  Once next() has returned None, every later
\* next() on the same traversal returns None too: no item, no failure.  On an
\* empty trie the first next() returns None.
C4_SequenceExhaustion ==
    /\ \A i, j \in DOMAIN out.iter :
          (i < j /\ out.iter[i] = Exhausted) => out.iter[j] = Exhausted
    /\ (Stored(trie) = {} /\ hm_is_empty(trie.children) /\ out.iter /= <<>>) =>
          out.iter[1] = Exhausted

\* C5: traversal completeness.  With k pairs stored, the first k next() calls
\* of iter() return k different items, each a stored pair, and call k + 1
\* returns None: every stored pair once, nothing else.
C5_TraversalCompleteness ==
    LET k == Cardinality(Stored(trie))
        n == Len(out.iter)
    IN  /\ \A i \in 1..Min(n, k) :
              /\ ~out.iter[i].panicked
              /\ is_some(out.iter[i].ret)
              /\ unwrap(out.iter[i].ret) \in Stored(trie)
        /\ \A i, j \in 1..Min(n, k) : i /= j => out.iter[i] /= out.iter[j]
        /\ n > k => out.iter[k + 1] = Exhausted

\* C5 witness: a traversal of a trie holding three pairs and a branch node
\* without a value has returned its first None
C5_Witness ==
    /\ Cardinality(Stored(trie)) = 3
    /\ Len(out.iter) = 4 /\ out.iter[4] = Exhausted
    /\ \E p \in InsertedPaths, q \in Paths :
          IsStrictPrefix(q, p) /\ is_none(fetch(trie, q))

\* C6: pre-order.  Of two items of iter() where the path of one is a strict
\* prefix of the path of the other, the one with the shorter path comes first.
C6_PreOrder ==
    \A i, j \in DOMAIN out.iter :
        (/\ is_some(out.iter[i].ret) /\ is_some(out.iter[j].ret)
         /\ IsStrictPrefix(unwrap(out.iter[i].ret)[1], unwrap(out.iter[j].ret)[1]))
            => i < j

\* C6 witness: the traversal has run to its end over a root value, a value
\* one key below it and a value two keys below it
C6_Witness ==
    /\ Len(out.iter) >= 4 /\ out.iter[4] = Exhausted
    /\ \A i \in 1..3 : is_some(out.iter[i].ret)
    /\ \E i, j, l \in 1..3 :
          /\ IsStrictPrefix(unwrap(out.iter[i].ret)[1], unwrap(out.iter[j].ret)[1])
          /\ IsStrictPrefix(unwrap(out.iter[j].ret)[1], unwrap(out.iter[l].ret)[1])

\* the outcome of a next() call on keys() and on values() that matches the
\* outcome o of the same call on iter()
KeyOf(o) == [o EXCEPT !.ret = IF is_none(@) THEN None ELSE Some(unwrap(@)[1])]
ValueOf(o) == [o EXCEPT !.ret = IF is_none(@) THEN None ELSE Some(unwrap(@)[2])]

\* C7: projections.  On the same unmodified trie, call i of keys() returns
\* the path of the item call i of iter() returns, and call i of values() its
\* value; all three return None at the same call.
C7_Projections ==
    /\ \A i \in 1..Min(Len(out.iter), Len(out.keys)) :
          out.keys[i] = KeyOf(out.iter[i])
    /\ \A i \in 1..Min(Len(out.iter), Len(out.values)) :
          out.values[i] = ValueOf(out.iter[i])

\* C7 witness: the three traversals of a trie whose root has two children
\* have each returned three items and then None
C7_Witness ==
    /\ Len(trie.children.order) = 2
    /\ Len(out.iter) = 4 /\ Len(out.keys) = 4 /\ Len(out.values) = 4
    /\ out.iter[4] = Exhausted /\ out.keys[4] = Exhausted /\ out.values[4] = Exhausted
    /\ \A i \in 1..3 :
          is_some(out.iter[i].ret) /\ is_some(out.keys[i].ret) /\ is_some(out.values[i].ret)

\* the frame f of a traversal stands at node, reached from the root by path:
\* keys_above is that path, and the frames of its children, once built, stand
\* at the children of node in the order of the map, one key further down
RECURSIVE FrameAt(_, _, _)
FrameAt(f, path, node) ==
    /\ f.keys_above = path
    /\ f.inner = node
    /\ is_some(f.child_iters) =>
          LET ci == unwrap(f.child_iters)
              ks == hm_keys(node.children)
          IN  /\ Len(ci) = Len(ks)
              /\ \A i \in DOMAIN ci :
                    FrameAt(ci[i], Append(path, ks[i]), node.children.tab[ks[i]])

\* C10: path stack.  The keys_above of every frame of a traversal is the
\* sequence of keys from the root to the frame's node, that of a parent is
\* the same after its children's frames are built as before, and every item
\* (path, v) of iter() has fetch(path) = Some(v).
C10_PathStack ==
    /\ is_some(it) => FrameAt(unwrap(it), <<>>, trie)
    /\ \A i \in DOMAIN out.iter :
          is_some(out.iter[i].ret) =>
              fetch(trie, unwrap(out.iter[i].ret)[1]) = Some(unwrap(out.iter[i].ret)[2])

\* C10 witness: the root frame has built the frames of two children, one of
\* them has built the frame of its own child, and that one's item is out
C10_Witness ==
    /\ is_some(it) /\ is_some(unwrap(it).child_iters)
    /\ Len(unwrap(unwrap(it).child_iters)) = 2
    /\ \E c \in {unwrap(unwrap(it).child_iters)[i] : i \in 1..2} :
          is_some(c.child_iters)
    /\ \E i \in DOMAIN out.iter :
          is_some(out.iter[i].ret) /\ Len(unwrap(out.iter[i].ret)[1]) = 2

(***************************************************************************)
(* Properties of the round trip through the encoding.                      *)
(***************************************************************************)
\* the items t.iter() returns up to its first None
RECURSIVE Drain(_)
Drain(i) ==
    LET r == TrieIter_next(i)
    IN  IF r.panicked \/ is_none(r.ret) THEN <<>>
        ELSE <<unwrap(r.ret)>> \o Drain(r.self)

Items(t) == Drain(Trie_iter(t))

Count(seq, x) == Cardinality({i \in DOMAIN seq : seq[i] = x})

\* the two sequences hold the same elements the same number of times
SameMultiset(a, b) ==
    /\ Len(a) = Len(b)
    /\ \A i \in DOMAIN a : Count(a, a[i]) = Count(b, a[i])

\* from_slice has just returned decoded from a buffer that encodes trie
RoundTripDone ==
    /\ last.op = "from_slice" /\ ~last.panicked
    /\ is_some(decoded)
    /\ encoded = Some(to_vec(vtype, trie))

\* the decoded trie has the items of trie and fetches as trie does
RoundTripIdentity ==
    /\ SameMultiset(Items(unwrap(decoded)), Items(trie))
    /\ \A p \in InsertedPaths : fetch(unwrap(decoded), p) = fetch(trie, p)

\* C8 as stated: for every trie built from non-conflicting inserts,
\* decode(encode(t)) has the multiset of (path, value) pairs of t.iter() and
\* fetch agrees with t at every inserted path.
C8_RoundTripAnyValueType ==
    RoundTripDone => RoundTripIdentity

\* C8 amended: the same for every trie whose value type is not the unit type
\* (i32 here), whose values do not encode as null.
C8_RoundTrip ==
    (RoundTripDone /\ vtype /= "unit") => RoundTripIdentity

\* C8 witness: an i32 trie holding three pairs under a root with two children
\* has gone through the round trip
C8_Witness ==
    /\ RoundTripDone /\ vtype = "i32"
    /\ Len(Items(trie)) = 3
    /\ Len(trie.children.order) = 2

\* C9: unit-value ambiguity.  In a trie of unit values, fetch at a path where
\* the unit value was inserted is Some(()) and differs from fetch at a path
\* never inserted; in the trie decoded from its encoding the two fetches
\* return the same.
C9_UnitAmbiguity ==
    (vtype = "unit" /\ is_none(new_val)) =>
        \A p \in InsertedPaths, q \in ProbePaths \ InsertedPaths :
            /\ fetch(trie, p) = Some(Unit)
            /\ fetch(trie, q) = None
            /\ RoundTripDone => fetch(unwrap(decoded), p) = fetch(unwrap(decoded), q)

\* C9 witness: a trie of unit values holding the unit value at a path of one
\* key has gone through the round trip
C9_Witness ==
    /\ vtype = "unit" /\ is_none(new_val)
    /\ RoundTripDone
    /\ \E p \in InsertedPaths : Len(p) = 1

(***************************************************************************)
(* Properties of the child cursor of a traversal.                          *)
(***************************************************************************)
\* a frame no next() call has reached
Fresh(f) == ~f.did_self /\ is_none(f.child_iters) /\ f.current = 0

\* a frame that has no item left to return
Done(f) == Drain(f) = <<>>

\* in frame f and the frames below it, the children before the cursor have
\* nothing left and the children after it are untouched
RECURSIVE CursorState(_)
CursorState(f) ==
    /\ ~f.did_self => Fresh(f)
    /\ is_some(f.child_iters) =>
          LET ci == unwrap(f.child_iters)
          IN  \A i \in DOMAIN ci :
                  /\ i <= f.current => Done(ci[i])
                  /\ i > f.current + 1 => Fresh(ci[i])
                  /\ CursorState(ci[i])

\* from frame f to the same frame g one step later: the child frames are
\* built on the first call only and stay the same frames in the same order,
\* the cursor does not move back, and a child the cursor has left is as it was
RECURSIVE CursorStep(_, _)
CursorStep(f, g) ==
    /\ f.did_self => g.did_self
    /\ (f.did_self /\ is_none(f.child_iters)) => is_none(g.child_iters)
    /\ is_some(f.child_iters) =>
          /\ is_some(g.child_iters)
          /\ Len(unwrap(g.child_iters)) = Len(unwrap(f.child_iters))
          /\ g.current >= f.current
          /\ \A i \in DOMAIN unwrap(f.child_iters) :
                LET c == unwrap(f.child_iters)[i]
                    d == unwrap(g.child_iters)[i]
                IN  /\ d.inner = c.inner /\ d.keys_above = c.keys_above
                    /\ i <= f.current => d = c
                    /\ CursorStep(c, d)

\* the items of iter() whose paths start with the same keys come in one block
ContiguousBlocks ==
    \A i, j, l \in DOMAIN out.iter :
        (/\ i < j /\ j < l
         /\ is_some(out.iter[i].ret) /\ is_some(out.iter[j].ret)
         /\ is_some(out.iter[l].ret)) =>
            LET pi == unwrap(out.iter[i].ret)[1]
                pj == unwrap(out.iter[j].ret)[1]
                pl == unwrap(out.iter[l].ret)[1]
            IN  \A n \in 1..Len(pi) :
                    (Len(pl) >= n /\ SubSeq(pl, 1, n) = SubSeq(pi, 1, n)) =>
                        (Len(pj) >= n /\ SubSeq(pj, 1, n) = SubSeq(pi, 1, n))

\* C11: child cursor protocol.  A node's child traversals are built once, on
\* its first next() call, and keep their order; child i + 1 is untouched until
\* child i has nothing left, and a child the cursor has left is not advanced
\* again; so the entries under one child come as one block of the output.
C11_ChildCursor ==
    [][/\ is_some(it') => CursorState(unwrap(it'))
       /\ (is_some(it) /\ is_some(it')) => CursorStep(unwrap(it), unwrap(it'))
       /\ ContiguousBlocks']_vars

\* C11 witness: the cursor of the root has left a child that returned two
\* items and another child has returned the third
C11_Witness ==
    /\ is_some(it) /\ is_some(unwrap(it).child_iters)
    /\ Len(unwrap(unwrap(it).child_iters)) = 2
    /\ unwrap(it).current = 1
    /\ Len(out.iter) = 3
    /\ \A i \in 1..3 : is_some(out.iter[i].ret) /\ unwrap(out.iter[i].ret)[1] /= <<>>
    /\ Head(unwrap(out.iter[1].ret)[1]) = Head(unwrap(out.iter[2].ret)[1])
    /\ Head(unwrap(out.iter[2].ret)[1]) /= Head(unwrap(out.iter[3].ret)[1])

(***************************************************************************)
(* Properties of the root value.                                           *)
(***************************************************************************)
\* C12: root value.  A trie built with new(Some(r)) holds r at the empty path
\* in every state reached by successful inserts, holds at a non-empty path
\* only what was inserted there (r is not taken for a key), and iter()
\* returns ([], r) first.
C12_RootValue ==
    is_some(new_val) =>
        /\ fetch(trie, <<>>) = new_val
        /\ \A q \in ProbePaths \ {<<>>} :
              /\ q \notin InsertedPaths => fetch(trie, q) = None
              /\ \A e \in inserted : e[1] = q => fetch(trie, q) = Some(e[2])
        /\ out.iter /= <<>> =>
              out.iter[1] = [ret |-> Some(<<<<>>, unwrap(new_val)>>), panicked |-> FALSE]

\* C12 witness: the root holds r, a value was inserted at a path p, nothing at
\* the path made of r followed by p, and iter() has returned two items
C12_Witness ==
    /\ vtype = "i32" /\ is_some(new_val)
    /\ \E p \in InsertedPaths :
          /\ (<<unwrap(new_val)>> \o p) \in ProbePaths \ InsertedPaths
          /\ fetch(trie, <<unwrap(new_val)>> \o p) = None
    /\ Len(out.iter) >= 2 /\ is_some(out.iter[2].ret)

(***************************************************************************)
(* Properties of the node structure.                                       *)
(***************************************************************************)
\* C13: insert frame.  A successful insert(p, v) leaves the result of fetch
\* unchanged at every path other than p.
C13_InsertFrame ==
    [][(last'.op = "insert" /\ ~last'.panicked) =>
          \A q \in ProbePaths \ {last'.keys} : fetch(trie', q) = fetch(trie, q)]_vars

\* C13 witness: an insert at a path of two keys has created the node of its
\* first key, next to a value stored by an earlier insert
C13_Witness ==
    /\ last.op = "insert" /\ ~last.panicked
    /\ Len(last.keys) = 2
    /\ fetch(trie, SubSeq(last.keys, 1, 1)) = None
    /\ fetch(trie, last.keys) = last.val
    /\ \E e \in inserted : e[1] /= last.keys /\ fetch(trie, e[1]) = Some(e[2])

\* the nodes of t other than t itself, as the paths that lead to them
RECURSIVE NodePaths(_)
NodePaths(t) ==
    UNION {{<<k>>} \cup {<<k>> \o p : p \in NodePaths(t.children.tab[k])} :
              k \in DOMAIN t.children.tab}

\* the node of t at path p
RECURSIVE NodeAt(_, _)
NodeAt(t, p) == IF p = <<>> THEN t ELSE NodeAt(t.children.tab[Head(p)], Tail(p))

NoDeadBranches(t) ==
    \A p \in NodePaths(t) :
        is_some(NodeAt(t, p).val) \/ ~hm_is_empty(NodeAt(t, p).children)

\* C14: no dead branches.  Every node other than the root holds a value or
\* has a child, and a rejected duplicate insert creates no node.
C14_NoDeadBranches ==
    [][/\ NoDeadBranches(trie')
       /\ (last'.op = "insert" /\ last'.panicked) => NodePaths(trie') = NodePaths(trie)]_vars

\* C14 witness: a duplicate insert has just been rejected at a path below a
\* node that holds no value
C14_Witness ==
    /\ last.op = "insert" /\ last.panicked
    /\ Len(last.keys) = 2
    /\ SubSeq(last.keys, 1, 1) \in NodePaths(trie)
    /\ is_none(NodeAt(trie, SubSeq(last.keys, 1, 1)).val)
    /\ Cardinality(NodePaths(trie)) >= 3

\* the outcomes of inserting the entries of S into t, in every order
RECURSIVE Builds(_, _)
Builds(t, S) ==
    IF S = {} THEN {[self |-> t, panicked |-> FALSE]}
    ELSE UNION {UNION {IF r.panicked THEN {r} ELSE Builds(r.self, S \ {e}) :
                          r \in insert(t, e[1], e[2])} : e \in S}

\* the node structure of t: values and children by key, without bucket order
RECURSIVE Shape(_)
Shape(t) ==
    [val |-> t.val,
     children |-> [k \in DOMAIN t.children.tab |-> Shape(t.children.tab[k])]]

PairSet(t) == {Items(t)[i] : i \in DOMAIN Items(t)}

\* C15: insert order independence.  The inserts that built the trie, applied
\* to the same new trie in any order, all succeed and give the node structure
\* of the trie: fetch agrees at every path and iter() returns the same set of
\* pairs.
C15_OrderIndependence ==
    \A b \in Builds(Trie_new(new_val), inserted) :
        /\ ~b.panicked
        /\ Shape(b.self) = Shape(trie)
        /\ \A q \in ProbePaths : fetch(b.self, q) = fetch(trie, q)
        /\ PairSet(b.self) = PairSet(trie)

\* C15 witness: three inserts, one of them below another, and an order of
\* them that gives a trie with another bucket order
C15_Witness ==
    /\ Cardinality(inserted) = 3
    /\ \E p, q \in InsertedPaths : IsStrictPrefix(p, q)
    /\ Cardinality(DOMAIN trie.children.tab) = 2
    /\ \E b \in Builds(Trie_new(new_val), inserted) :
          b.self /= trie /\ Items(b.self) /= Items(trie)

====
